---- MODULE Spec2Model ----
(***************************************************************************)
(* Notebook-to-document-tree rendering of MyST-NB.                         *)
(*                                                                         *)
(* The notebook loop is that of NotebookParser.parse (myst_nb/parser.py):  *)
(* front matter first, then the cells in index order, empty cells skipped. *)
(* Each cell is handed to the handlers of DocutilsNbRenderer               *)
(* (myst_nb/docutils_.py): render_nb_metadata, render_nb_cell_markdown,    *)
(* render_nb_cell_raw, render_nb_cell_code, render_nb_cell_code_source and *)
(* render_nb_cell_code_outputs.                                            *)
(*                                                                         *)
(* The document tree is an arena: tree[i] is the i-th node created, with   *)
(* the index of its parent (0 is the document).  Nodes are only ever       *)
(* appended to their parent, so the children of a node, in order, are the  *)
(* nodes naming it as parent, in arena order.                              *)
(***************************************************************************)
EXTENDS Integers, Sequences, FiniteSets, TLC

\* ------------------------------------------------------------------ bounds

\* The size of a render: the cells, outputs, tags, cell-level configuration
\* entries, MIME bundle entries and metadata keys of the notebook read, the
\* configuration flags switched on, and every hook of the element renderer
\* that returns no node, or a node beyond the first.
MaxSize == 4

\* ------------------------------------------------------------- vocabulary

None == "None"

MimeTypes == {"text/html", "image/png", "text/plain"}

\* get_mime_priority(builder_name, overrides): one ordered list per builder.
MimePriorities ==
    { <<"text/html", "image/png", "text/plain">>,
      <<"image/png", "text/plain">>,
      <<"text/plain">> }

special_keys == {"kernelspec", "language_info", "source_map"}

MetadataKeys == special_keys \cup {"title"}

Tags == {"remove_input", "remove-input", "remove_output", "remove-output"}

\* nb_config.cell_render_key
cell_render_key == "mystnb"

ConfigKeys == {"remove_code_source", "remove_code_outputs",
               "number_source_lines", "metadata_to_fm"}

CellConfigKeys == {"remove_code_source", "remove_code_outputs",
                   "number_source_lines", "figure"}

\* The value a configuration option may take at cell level.
CellConfigValues(key) == IF key = "figure" THEN {"caption"} ELSE BOOLEAN

\* ------------------------------------------------------------ dictionaries

\* A Python dict is a function; `k in d` is membership in its domain.
EmptyDict == [k \in {} |-> None]

Has(d, k) == k \in DOMAIN d

\* d.get(k, default)
Get(d, k, default) == IF Has(d, k) THEN d[k] ELSE default

\* The cell-level render configuration is a dict, or some other JSON value.
IsDict(v) == v.type = "dict"

DictValue(d) == [type |-> "dict", items |-> d]

OtherValue == [type |-> "str", items |-> EmptyDict]

\* --------------------------------------------------------------- variables

VARIABLES
    nb_config,      \* the notebook/global configuration: option -> value
    mime_priority,  \* get_mime_priority(...) of the builder
    nb_metadata,    \* the notebook metadata handed to render_nb_metadata
    cells,          \* the cells of the notebook iterated so far
    pc,             \* position of the render
    tree,           \* the document tree, as an arena of nodes
    current_node,   \* the insertion pointer: an index of tree, 0 the document
    node_stack,     \* the parents saved by the open current_node_context scopes
    document,       \* the document attributes set by render_nb_metadata
    calls,          \* the element-renderer hooks called, in order
    remove_input,   \* locals of render_nb_cell_code
    remove_output,
    output_index,   \* loop variable of render_nb_cell_code_outputs
    size,           \* the size of the notebook read so far
    call_args,      \* arguments of a direct get_cell_render_config call
    call_result,    \* and its outcome
    directives,     \* docutils' global directive registry: name -> directive
    roles           \* docutils' global role registry: name -> role

vars == <<nb_config, mime_priority, nb_metadata, cells, pc, tree, current_node,
          node_stack, document, calls, remove_input, remove_output,
          output_index, size, call_args, call_result, directives, roles>>

\* ------------------------------------------- directive and role registries

\* get_glue_directives(), with "code-cell" and "raw-cell" added by parse
new_directives ==
    [name \in {"glue", "code-cell", "raw-cell"} |->
        IF name = "glue" THEN "GlueDirective" ELSE "UnexpectedCellDirective"]

\* get_glue_roles()
new_roles == [name \in {"glue"} |-> "GlueRole"]

\* The names under which other code may have registered directives and roles.
DirectiveNames == DOMAIN new_directives \cup {"figure", "note"}

RoleNames == DOMAIN new_roles \cup {"math", "ref"}

\* The registries some other code has filled, under whatever names.
Registries(names) == UNION { [d -> {"other"}] : d \in SUBSET names }

\* `for name, x in new.items(): registry[name] = x`
Register(registry, new) ==
    [name \in DOMAIN registry \cup DOMAIN new |->
        IF name \in DOMAIN new THEN new[name] ELSE registry[name]]

\* `for name in new: registry.pop(name, None)`
Unregister(registry, new) ==
    [name \in DOMAIN registry \ DOMAIN new |-> registry[name]]

\* ------------------------------------------------ configuration resolver

Return(v) == [kind |-> "return", value |-> v]

Raise(exc, arg) == [kind |-> exc, value |-> arg]

\* self.nb_config[name]: the value of a defined option, else a KeyError.
NbConfigGetItem(config, name) ==
    IF Has(config, name) THEN Return(config[name]) ELSE Raise("KeyError", name)

\* get_cell_render_config with the notebook level consulted first: the cell
\* level is used only for options the notebook level does not define.
get_cell_render_config_nb_first(config, cell_metadata, key, nb_key, has_nb_key) ==
    IF has_nb_key /\ Has(config, key)
    THEN Return(config[key])
    ELSE IF /\ Has(cell_metadata, cell_render_key)
            /\ IsDict(cell_metadata[cell_render_key])
            /\ Has(cell_metadata[cell_render_key].items, key)
    THEN Return(cell_metadata[cell_render_key].items[key])
    ELSE IF ~has_nb_key THEN Raise("KeyError", key)
    ELSE NbConfigGetItem(config, IF nb_key # None THEN nb_key ELSE key)

\* get_cell_render_config that falls back to the notebook level whether the
\* caller allows it or not.
get_cell_render_config_always_fallback(config, cell_metadata, key, nb_key, has_nb_key) ==
    IF /\ Has(cell_metadata, cell_render_key)
       /\ IsDict(cell_metadata[cell_render_key])
       /\ Has(cell_metadata[cell_render_key].items, key)
    THEN Return(cell_metadata[cell_render_key].items[key])
    ELSE NbConfigGetItem(config, IF nb_key # None THEN nb_key ELSE key)

\* DocutilsNbRenderer.get_cell_render_config
get_cell_render_config(config, cell_metadata, key, nb_key, has_nb_key) ==
    LET use_nb_level ==
            ~ ( /\ Has(cell_metadata, cell_render_key)
                /\ IsDict(cell_metadata[cell_render_key])
                /\ Has(cell_metadata[cell_render_key].items, key) )
    IN  IF use_nb_level
        THEN IF ~has_nb_key
             THEN Raise("KeyError", key)
             ELSE NbConfigGetItem(config, IF nb_key # None THEN nb_key ELSE key)
        ELSE Return(cell_metadata[cell_render_key].items[key])

\* ------------------------------------------------------ the notebook read

\* A MIME bundle: its keys in insertion order; the payload stored under a key.
DataMaps ==
    UNION { { d \in [1..n -> MimeTypes] :
                \A i, j \in 1..n : i # j => d[i] # d[j] } :
            n \in 0..Cardinality(MimeTypes) }

Payload(mime_type) ==
    CASE mime_type = "text/html" -> "<b>42</b>"
      [] mime_type = "image/png" -> "iVBORw0KGgo="
      [] OTHER -> "42"

DataKeys(data) == {data[i] : i \in 1..Len(data)}

Output(output_type, name, data) ==
    [output_type |-> output_type, name |-> name, data |-> data]

Outputs ==
    { Output("stream", n, <<>>) : n \in {"stdout", "stderr", "stdin"} }
    \cup { Output("error", "", <<>>) }
    \cup { Output(t, "", d) : t \in {"display_data", "execute_result"},
                              d \in DataMaps }
    \cup { Output("pyout", "", <<>>) }

OutputSize(output) == 1 + Len(output.data)

RECURSIVE OutputSeqs(_)
OutputSeqs(b) ==
    {<<>>} \cup
    UNION { { <<o>> \o s : s \in OutputSeqs(b - OutputSize(o)) } :
            o \in {x \in Outputs : OutputSize(x) <= b} }

\* The cell-level render configuration: absent, not a dict, or a dict.
Entry(key) == {EmptyDict} \cup {key :> v : v \in CellConfigValues(key)}

CellConfigDicts ==
    { a @@ b @@ c @@ d : a \in Entry("remove_code_source"),
                         b \in Entry("remove_code_outputs"),
                         c \in Entry("number_source_lines"),
                         d \in Entry("figure") }

CellConfigSize(d) == 1 + Cardinality(DOMAIN d)

\* Cell metadata with the given tags and cell-level configuration.
Metadata(tags, config) ==
    (IF tags = {} THEN EmptyDict ELSE "tags" :> tags) @@ config

CellConfigs(b) ==
    {EmptyDict}
    \cup (IF b >= 1 THEN {cell_render_key :> OtherValue} ELSE {})
    \cup { cell_render_key :> DictValue(d) :
             d \in {x \in CellConfigDicts : CellConfigSize(x) <= b} }

CellConfigWeight(config) ==
    IF ~Has(config, cell_render_key) THEN 0
    ELSE IF ~IsDict(config[cell_render_key]) THEN 1
    ELSE CellConfigSize(config[cell_render_key].items)

Cell(cell_type, source, metadata, outputs) ==
    [cell_type |-> cell_type, source |-> source, metadata |-> metadata,
     outputs |-> outputs]

CellTypes == {"markdown", "raw", "code"}

\* Cells with no source: whatever their kind, there is nothing in them.
EmptyCells == { Cell(t, "", EmptyDict, <<>>) : t \in CellTypes }

TextCells(cell_type) == { Cell(cell_type, "text", EmptyDict, <<>>) }

CodeCells(b) ==
    UNION { UNION { { Cell("code", "1+1", Metadata(t, c), outs) :
                        outs \in OutputSeqs(b - 1 - Cardinality(t)
                                              - CellConfigWeight(c)) } :
                    c \in CellConfigs(b - 1 - Cardinality(t)) } :
            t \in {x \in SUBSET Tags : Cardinality(x) <= b - 1} }

RECURSIVE SumSizes(_)
SumSizes(outputs) ==
    IF outputs = <<>> THEN 0
    ELSE OutputSize(Head(outputs)) + SumSizes(Tail(outputs))

CellSize(cell) ==
    1 + Cardinality(Get(cell.metadata, "tags", {}))
      + CellConfigWeight(cell.metadata) + SumSizes(cell.outputs)

\* The global configuration: every option defined, some switched on.
NbConfigSize(config) == Cardinality({k \in DOMAIN config : config[k]})

NbConfigs == {c \in [ConfigKeys -> BOOLEAN] : NbConfigSize(c) <= MaxSize}

\* ------------------------------------------------------- the document tree

NoIndex == -1

Node(kind, parent, cell_index, out_index, mime_type, content, line) ==
    [kind |-> kind, parent |-> parent, cell_index |-> cell_index,
     output_index |-> out_index, mime_type |-> mime_type,
     content |-> content, line |-> line]

\* token_line(token): the line of the cell's token in the source document.
token_line(cell_index) == cell_index + 1

\* nodes.container(...) followed by add_line_and_source_path(container, token)
Container(kind, parent, cell_index) ==
    Node(kind, parent, cell_index, NoIndex, "", {}, token_line(cell_index))

\* n copies of a node: the node list an element-renderer hook returns.
Repeat(node, n) == [i \in 1..n |-> node]

\* What a hook's answer of n nodes adds to the size of the render: a hook
\* mostly returns one node.
HookSize(n) == IF n > 1 THEN n - 1 ELSE 1 - n

\* The lengths of the node list a hook may return when the render has size s.
HookCounts(s) == {n \in 0..(1 + MaxSize - s) : s + HookSize(n) <= MaxSize}

\* A hook called by the renderer, with what it was given.
Call(hook, cell_index, out_index, mime_type, payload, figure_options) ==
    [hook |-> hook, cell_index |-> cell_index, output_index |-> out_index,
     mime_type |-> mime_type, payload |-> payload,
     figure_options |-> figure_options]

\* The children of tree node p (0: the document), in order, as arena indices.
Children(p) == {i \in 1..Len(tree) : tree[i].parent = p}

\* --------------------------------------------------------------- the render

Init ==
    /\ nb_config \in NbConfigs
    /\ mime_priority \in MimePriorities
    /\ nb_metadata = {}
    /\ cells = <<>>
    /\ pc = "metadata"
    /\ tree = <<>>
    /\ current_node = 0
    /\ node_stack = <<>>
    /\ document = {}
    /\ calls = <<>>
    /\ remove_input = FALSE
    /\ remove_output = FALSE
    /\ output_index = 0
    /\ size = NbConfigSize(nb_config)
    /\ call_args = None
    /\ call_result = None
    /\ directives = new_directives
    /\ roles = new_roles

\* NbElementRenderer.render_nb_metadata: returns the metadata to forward.
nb_renderer_render_nb_metadata(metadata) == metadata

\* f"nb_{key}"
NbAttribute(key) ==
    CASE key = "kernelspec" -> "nb_kernelspec"
      [] key = "language_info" -> "nb_language_info"
      [] key = "source_map" -> "nb_source_map"

\* All the metadata is forwarded as front matter.
top_matter_unfiltered(metadata) == metadata

\* The keys of the front matter forwarded by render_nb_metadata.
top_matter(metadata) == {k \in metadata : k \notin special_keys}

\* DocutilsNbRenderer.render_nb_metadata, on the notebook's metadata
RenderNbMetadata ==
    /\ pc = "metadata"
    /\ \E meta \in {m \in SUBSET MetadataKeys : Cardinality(m) <= MaxSize - size} :
        LET metadata == nb_renderer_render_nb_metadata(meta)
        IN  /\ nb_metadata' = meta
            /\ size' = size + Cardinality(meta)
            /\ document' = document \cup
                   {NbAttribute(key) : key \in {k \in special_keys : k \in meta}}
            /\ IF nb_config["metadata_to_fm"]
               THEN /\ tree' = Append(tree,
                          Node("front_matter", current_node, NoIndex, NoIndex,
                               "", top_matter(metadata), 0))
                    /\ calls' = Append(calls,
                          Call("render_front_matter", NoIndex, NoIndex, "",
                               "", None))
               ELSE UNCHANGED <<tree, calls>>
    /\ pc' = "cells"
    /\ UNCHANGED <<directives, roles, nb_config, mime_priority, cells, current_node, node_stack,
                   remove_input, remove_output, output_index, call_args,
                   call_result>>

\* A cell is skipped whether it has source or not.
SkipAnyCell ==
    /\ pc = "cells"
    /\ size < MaxSize
    /\ \E cell \in EmptyCells \cup TextCells("markdown") :
        /\ cells' = Append(cells, cell)
        /\ size' = size + CellSize(cell)
    /\ UNCHANGED <<directives, roles, nb_config, mime_priority, nb_metadata, pc, tree,
                   current_node, node_stack, document, calls, remove_input,
                   remove_output, output_index, call_args, call_result>>

\* NotebookParser.parse: `if len(cell["source"]) == 0: continue`
SkipEmptyCell ==
    /\ pc = "cells"
    /\ size < MaxSize
    /\ \E cell \in EmptyCells :
        /\ Len(cell.source) = 0
        /\ cells' = Append(cells, cell)
        /\ size' = size + CellSize(cell)
    /\ UNCHANGED <<directives, roles, nb_config, mime_priority, nb_metadata, pc, tree,
                   current_node, node_stack, document, calls, remove_input,
                   remove_output, output_index, call_args, call_result>>

\* DocutilsNbRenderer.render_nb_cell_markdown: the cell's prose, unwrapped
RenderNbCellMarkdown ==
    /\ pc = "cells"
    /\ size < MaxSize
    /\ \E cell \in TextCells("markdown"), n \in HookCounts(size + 1) :
        LET cell_index == Len(cells)
        IN  /\ Len(cell.source) # 0
            /\ cells' = Append(cells, cell)
            /\ size' = size + CellSize(cell) + HookSize(n)
            /\ tree' = tree \o Repeat(
                   Node("markdown", current_node, cell_index, NoIndex, "", {},
                        token_line(cell_index)), n)
            /\ calls' = Append(calls,
                   Call("render_children", cell_index, NoIndex, "", "", None))
    /\ UNCHANGED <<directives, roles, nb_config, mime_priority, nb_metadata, pc, current_node,
                   node_stack, document, remove_input, remove_output,
                   output_index, call_args, call_result>>

\* DocutilsNbRenderer.render_nb_cell_raw
RenderNbCellRaw ==
    /\ pc = "cells"
    /\ size < MaxSize
    /\ \E cell \in TextCells("raw"), n \in HookCounts(size + 1) :
        LET cell_index == Len(cells)
        IN  /\ Len(cell.source) # 0
            /\ cells' = Append(cells, cell)
            /\ size' = size + CellSize(cell) + HookSize(n)
            /\ tree' = tree \o Repeat(
                   Node("raw", current_node, cell_index, NoIndex, "", {},
                        token_line(cell_index)), n)
            /\ calls' = Append(calls,
                   Call("render_raw_cell", cell_index, NoIndex, "", "", None))
    /\ UNCHANGED <<directives, roles, nb_config, mime_priority, nb_metadata, pc, current_node,
                   node_stack, document, remove_input, remove_output,
                   output_index, call_args, call_result>>

\* remove_input with the underscore spelling of the tag only.
RemoveInputUnderscoreOnly(config_value, tags) ==
    config_value \/ ("remove_input" \in tags)

\* remove_input of render_nb_cell_code, given the resolved configuration value
RemoveInput(config_value, tags) ==
    config_value \/ ("remove_input" \in tags) \/ ("remove-input" \in tags)

\* remove_output of render_nb_cell_code, given the resolved configuration value
RemoveOutput(config_value, tags) ==
    config_value \/ ("remove_output" \in tags) \/ ("remove-output" \in tags)

\* The cell container is made before the flags are looked at: no cell is
\* short-circuited.
skip_cell_never(input_removed, output_removed) == FALSE

\* render_nb_cell_code: `if remove_input and remove_output: return`
skip_cell(input_removed, output_removed) == input_removed /\ output_removed

\* The output container is made for a cell without outputs too.
show_outputs_unchecked(output_removed, has_outputs) == ~output_removed

\* render_nb_cell_code: `if (not remove_output) and has_outputs:`
show_outputs(output_removed, has_outputs) ==
    (~output_removed) /\ has_outputs # <<>>

\* The cell being rendered and its index in the notebook.
CurrentIndex == Len(cells) - 1

CurrentCell == cells[Len(cells)]

\* DocutilsNbRenderer.render_nb_cell_code, up to the opening of the cell
\* container's scope
RenderNbCellCode ==
    /\ pc = "cells"
    /\ size < MaxSize
    /\ \E cell \in CodeCells(MaxSize - size) :
        LET cell_index == Len(cells)
            tags == Get(cell.metadata, "tags", {})
            source_flag == get_cell_render_config(
                nb_config, cell.metadata, "remove_code_source", None, TRUE)
            outputs_flag == get_cell_render_config(
                nb_config, cell.metadata, "remove_code_outputs", None, TRUE)
        IN  /\ Len(cell.source) # 0
            /\ cells' = Append(cells, cell)
            /\ size' = size + CellSize(cell)
            /\ IF source_flag.kind # "return" \/ outputs_flag.kind # "return"
               THEN /\ pc' = "raised"
                    /\ UNCHANGED <<tree, current_node, node_stack,
                                   remove_input, remove_output>>
               ELSE /\ remove_input' = RemoveInput(source_flag.value, tags)
                    /\ remove_output' = RemoveOutput(outputs_flag.value, tags)
                    /\ IF skip_cell(remove_input', remove_output')
                       THEN UNCHANGED <<pc, tree, current_node, node_stack>>
                       ELSE /\ tree' = Append(tree,
                                  Container("cell", current_node, cell_index))
                            /\ node_stack' = Append(node_stack, current_node)
                            /\ current_node' = Len(tree) + 1
                            /\ pc' = "code_input"
    /\ UNCHANGED <<directives, roles, nb_config, mime_priority, nb_metadata, document, calls,
                   output_index, call_args, call_result>>

\* render_nb_cell_code: the "cell_input" container, holding what
\* render_nb_cell_code_source appends
RenderCodeInput ==
    /\ pc = "code_input"
    /\ LET cell_index == CurrentIndex
           number_lines == get_cell_render_config(
               nb_config, CurrentCell.metadata, "number_source_lines", None, TRUE)
           cell_input == Len(tree) + 1
       IN  IF remove_input
           THEN /\ pc' = "code_outputs"
                /\ UNCHANGED <<tree, current_node, node_stack>>
           ELSE IF number_lines.kind # "return"
           THEN \* the KeyError leaves the "cell_input" scope open
                /\ tree' = Append(tree,
                       Container("cell_input", current_node, cell_index))
                /\ node_stack' = Append(node_stack, current_node)
                /\ current_node' = cell_input
                /\ pc' = "raised"
           ELSE /\ tree' = tree \o
                       << Container("cell_input", current_node, cell_index),
                          Node("source", cell_input, cell_index, NoIndex, "",
                               IF number_lines.value THEN {"linenos"} ELSE {},
                               token_line(cell_index)) >>
                /\ pc' = "code_outputs"
                /\ UNCHANGED <<current_node, node_stack>>
    /\ UNCHANGED <<directives, roles, nb_config, mime_priority, nb_metadata, cells, document,
                   calls, remove_input, remove_output, output_index, size,
                   call_args, call_result>>

\* render_nb_cell_code: the "cell_output" container is opened when the cell
\* has outputs to show; otherwise the cell container's scope ends
BeginCodeOutputs ==
    /\ pc = "code_outputs"
    /\ LET has_outputs == CurrentCell.outputs
       IN  IF show_outputs(remove_output, has_outputs)
           THEN /\ tree' = Append(tree,
                       Container("cell_output", current_node, CurrentIndex))
                /\ node_stack' = Append(node_stack, current_node)
                /\ current_node' = Len(tree) + 1
                /\ output_index' = 0
                /\ pc' = "outputs"
           ELSE /\ current_node' = node_stack[Len(node_stack)]
                /\ node_stack' = SubSeq(node_stack, 1, Len(node_stack) - 1)
                /\ pc' = "cells"
                /\ UNCHANGED <<tree, output_index>>
    /\ UNCHANGED <<directives, roles, nb_config, mime_priority, nb_metadata, cells, document,
                   calls, remove_input, remove_output, size, call_args,
                   call_result>>

\* ------------------------------------------------------------- the outputs

\* The first key of the bundle that the priority list names: the bundle is
\* walked, not the priority list.
next_mime_type_by_data(priority, data) ==
    LET hits == {i \in 1..Len(data) :
                    \E j \in 1..Len(priority) : priority[j] = data[i]}
    IN  IF hits = {} THEN None
        ELSE data[CHOOSE i \in hits : \A k \in hits : i <= k]

\* next(x for x in mime_priority if x in output["data"]); None: StopIteration
RECURSIVE next_mime_type(_, _)
next_mime_type(priority, data) ==
    IF priority = <<>> THEN None
    ELSE IF Head(priority) \in DataKeys(data) THEN Head(priority)
    ELSE next_mime_type(Tail(priority), data)

\* output["data"][mime_type]
DataGetItem(data, mime_type) == Payload(mime_type)

\* The outputs are gone through from the last to the first.
CurrentOutputReversed ==
    CurrentCell.outputs[Len(CurrentCell.outputs) - output_index]

\* `for output_index, output in enumerate(outputs):`
CurrentOutput == CurrentCell.outputs[output_index + 1]

\* What every branch of the output loop leaves alone.
OutputFrame ==
    UNCHANGED <<directives, roles, nb_config, mime_priority, nb_metadata, cells, pc, node_stack,
                document, remove_input, remove_output, call_args, call_result>>

\* The nodes of one hook call, stamped by add_line_and_source_path_r and
\* appended by current_node.extend
HookNodes(kind, parent, mime_type, n) ==
    Repeat(Node(kind, parent, CurrentIndex, output_index, mime_type, {},
                token_line(CurrentIndex)), n)

\* create_warning(..., line=line, append_to=self.current_node, subtype=...)
Warning(subtype) ==
    Node("warning", current_node, CurrentIndex, output_index, "", {subtype},
         token_line(CurrentIndex))

\* render_nb_cell_code_outputs: output_type "stream"
RenderStream ==
    /\ pc = "outputs"
    /\ output_index < Len(CurrentCell.outputs)
    /\ CurrentOutput.output_type = "stream"
    /\ IF CurrentOutput.name = "stdout"
       THEN \E n \in HookCounts(size) :
            /\ tree' = tree \o HookNodes("stdout", current_node, "", n)
            /\ calls' = Append(calls, Call("render_stdout", CurrentIndex,
                                           output_index, "", "", None))
            /\ size' = size + HookSize(n)
       ELSE IF CurrentOutput.name = "stderr"
       THEN \E n \in HookCounts(size) :
            /\ tree' = tree \o HookNodes("stderr", current_node, "", n)
            /\ calls' = Append(calls, Call("render_stderr", CurrentIndex,
                                           output_index, "", "", None))
            /\ size' = size + HookSize(n)
       ELSE UNCHANGED <<tree, calls, size>>
    /\ output_index' = output_index + 1
    /\ UNCHANGED current_node
    /\ OutputFrame

\* render_nb_cell_code_outputs: output_type "error"
RenderError ==
    /\ pc = "outputs"
    /\ output_index < Len(CurrentCell.outputs)
    /\ CurrentOutput.output_type = "error"
    /\ \E n \in HookCounts(size) :
        /\ tree' = tree \o HookNodes("error", current_node, "", n)
        /\ calls' = Append(calls, Call("render_error", CurrentIndex,
                                       output_index, "", "", None))
        /\ size' = size + HookSize(n)
    /\ output_index' = output_index + 1
    /\ UNCHANGED current_node
    /\ OutputFrame

\* with suppress(KeyError): figure_options = get_cell_render_config(
\*     metadata, "figure", has_nb_key=False)
FigureOptions(metadata) ==
    LET found == get_cell_render_config(nb_config, metadata, "figure", None,
                                        FALSE)
    IN  IF found.kind = "return" THEN found.value ELSE None

\* The warning is issued and the output loop is left.
NoMimeTypeBreak ==
    /\ tree' = Append(tree, Warning("mime_type"))
    /\ output_index' = Len(CurrentCell.outputs)
    /\ UNCHANGED <<calls, size>>

\* render_nb_cell_code_outputs, `except StopIteration`: a warning in place of
\* the output, and the loop goes on
NoMimeType ==
    /\ tree' = Append(tree, Warning("mime_type"))
    /\ output_index' = output_index + 1
    /\ UNCHANGED <<calls, size>>

\* render_nb_cell_code_outputs, the `else` of the selection: the chosen type
\* is rendered, inside a figure when the cell gives figure options
RenderMimeType(mime_type) ==
    LET data == CurrentOutput.data
        figure_options == FigureOptions(CurrentCell.metadata)
        figure == Len(tree) + 1
    IN  \E n \in HookCounts(size) :
            /\ size' = size + HookSize(n)
            /\ calls' = Append(calls,
                   Call("render_mime_type", CurrentIndex, output_index,
                        mime_type, DataGetItem(data, mime_type),
                        figure_options))
            /\ IF figure_options = None
               THEN tree' = tree \o
                        HookNodes("mime", current_node, mime_type, n)
               ELSE tree' = Append(tree,
                               Node("figure", current_node, CurrentIndex,
                                    output_index, "", {},
                                    token_line(CurrentIndex)))
                            \o HookNodes("mime", figure, mime_type, n)
            /\ output_index' = output_index + 1

\* render_nb_cell_code_outputs: output_type "display_data", "execute_result"
RenderMimeBundle ==
    /\ pc = "outputs"
    /\ output_index < Len(CurrentCell.outputs)
    /\ CurrentOutput.output_type \in {"display_data", "execute_result"}
    /\ LET mime_type == next_mime_type(mime_priority, CurrentOutput.data)
       IN  IF mime_type = None THEN NoMimeType ELSE RenderMimeType(mime_type)
    /\ UNCHANGED current_node
    /\ OutputFrame

\* An unsupported output type is an error that ends the render.
RenderUnsupportedRaises ==
    /\ pc = "outputs"
    /\ output_index < Len(CurrentCell.outputs)
    /\ CurrentOutput.output_type \notin
           {"stream", "error", "display_data", "execute_result"}
    /\ pc' = "raised"
    /\ UNCHANGED <<directives, roles, nb_config, mime_priority, nb_metadata, cells, tree,
                   current_node, node_stack, document, calls, remove_input,
                   remove_output, output_index, size, call_args, call_result>>

\* render_nb_cell_code_outputs: any other output_type
RenderUnsupported ==
    /\ pc = "outputs"
    /\ output_index < Len(CurrentCell.outputs)
    /\ CurrentOutput.output_type \notin
           {"stream", "error", "display_data", "execute_result"}
    /\ tree' = Append(tree, Warning("output_type"))
    /\ output_index' = output_index + 1
    /\ UNCHANGED <<current_node, calls, size>>
    /\ OutputFrame

\* The output loop is exhausted: the "cell_output" scope and then the cell
\* container's scope end
EndCodeOutputs ==
    /\ pc = "outputs"
    /\ output_index = Len(CurrentCell.outputs)
    /\ current_node' = node_stack[Len(node_stack) - 1]
    /\ node_stack' = SubSeq(node_stack, 1, Len(node_stack) - 2)
    /\ pc' = "cells"
    /\ UNCHANGED <<directives, roles, nb_config, mime_priority, nb_metadata, cells, tree,
                   document, calls, remove_input, remove_output, output_index,
                   size, call_args, call_result>>

\* At pc = "cells" the render stands at the head of the cell loop: when the
\* notebook has no further cell, this is the state the render ends in.
Next ==
    \/ RenderNbMetadata
    \/ SkipEmptyCell
    \/ RenderNbCellMarkdown
    \/ RenderNbCellRaw
    \/ RenderNbCellCode
    \/ RenderCodeInput
    \/ BeginCodeOutputs
    \/ RenderStream
    \/ RenderError
    \/ RenderMimeBundle
    \/ RenderUnsupported
    \/ EndCodeOutputs

Spec == Init /\ [][Next]_vars

\* The same render, under the names the properties of the cells' structure
\* and of the order of the tree are stated against.
SpecCells == Init /\ [][Next]_vars

SpecOrder == Init /\ [][Next]_vars

\* ------------------------------------- get_cell_render_config called alone

\* The notebook/global configurations a caller may hold: any option may be
\* undefined.
PartialNbConfigs ==
    UNION { [d -> BOOLEAN] :
            d \in SUBSET {"remove_code_source", "remove_code_outputs",
                          "number_source_lines"} }

\* Every cell-level render configuration.
AllCellConfigs ==
    {EmptyDict, cell_render_key :> OtherValue}
    \cup { cell_render_key :> DictValue(d) : d \in CellConfigDicts }

InitConfig ==
    /\ nb_config \in PartialNbConfigs
    /\ call_args \in [cell_metadata : AllCellConfigs,
                      key : CellConfigKeys,
                      nb_key : {None} \cup ConfigKeys,
                      has_nb_key : BOOLEAN]
    /\ call_result = None
    /\ directives = new_directives
    /\ roles = new_roles
    /\ pc = "call"
    /\ mime_priority = <<>>
    /\ nb_metadata = {}
    /\ cells = <<>>
    /\ tree = <<>>
    /\ current_node = 0
    /\ node_stack = <<>>
    /\ document = {}
    /\ calls = <<>>
    /\ remove_input = FALSE
    /\ remove_output = FALSE
    /\ output_index = 0
    /\ size = 0

\* A caller (the renderer, or preprocess_notebook through the callback it is
\* given) calls get_cell_render_config
CallGetCellRenderConfig ==
    /\ pc = "call"
    /\ call_result' = get_cell_render_config(
           nb_config, call_args.cell_metadata, call_args.key,
           call_args.nb_key, call_args.has_nb_key)
    /\ pc' = "returned"
    /\ UNCHANGED <<directives, roles, nb_config, mime_priority, nb_metadata, cells, tree,
                   current_node, node_stack, document, calls, remove_input,
                   remove_output, output_index, size, call_args>>

NextConfig == CallGetCellRenderConfig

SpecConfig == InitConfig /\ [][NextConfig]_vars

\* ------------------- the resolver called alone and from within the render

InitCalls == Init \/ InitConfig

NextCalls == Next \/ NextConfig

SpecCalls == InitCalls /\ [][NextCalls]_vars

\* ------------------------------------------------- renders that may fail

\* A global configuration in which number_source_lines is not defined.
WithoutNumberLines(config) ==
    [k \in DOMAIN config \ {"number_source_lines"} |-> config[k]]

InitFail ==
    /\ \E c \in NbConfigs :
        \/ nb_config = c /\ size = NbConfigSize(c)
        \/ /\ NbConfigSize(c) < MaxSize
           /\ ~c["number_source_lines"]
           /\ nb_config = WithoutNumberLines(c)
           /\ size = NbConfigSize(c) + 1
    /\ mime_priority \in MimePriorities
    /\ nb_metadata = {}
    /\ cells = <<>>
    /\ pc = "metadata"
    /\ tree = <<>>
    /\ current_node = 0
    /\ node_stack = <<>>
    /\ document = {}
    /\ calls = <<>>
    /\ remove_input = FALSE
    /\ remove_output = FALSE
    /\ output_index = 0
    /\ call_args = None
    /\ call_result = None
    /\ directives = new_directives
    /\ roles = new_roles

\* render_nb_cell_markdown, render_nb_cell_raw: render_children or the
\* render_raw_cell hook raises.  No scope is open: the error leaves the
\* handler and the render.
CellHookRaises ==
    /\ pc = "cells"
    /\ size < MaxSize
    /\ \E cell \in TextCells("markdown") \cup TextCells("raw") :
        /\ Len(cell.source) # 0
        /\ cells' = Append(cells, cell)
        /\ size' = size + CellSize(cell)
        /\ calls' = Append(calls,
               Call(IF cell.cell_type = "raw" THEN "render_raw_cell"
                    ELSE "render_children", Len(cells), NoIndex, "", "", None))
    /\ pc' = "raised"
    /\ UNCHANGED <<directives, roles, nb_config, mime_priority, nb_metadata, tree, current_node,
                   node_stack, document, remove_input, remove_output,
                   output_index, call_args, call_result>>

\* The hook render_nb_cell_code_outputs calls for the current output, if any.
OutputHook ==
    IF CurrentOutput.output_type = "stream"
    THEN IF CurrentOutput.name = "stdout" THEN "render_stdout"
         ELSE IF CurrentOutput.name = "stderr" THEN "render_stderr"
         ELSE None
    ELSE IF CurrentOutput.output_type = "error" THEN "render_error"
    ELSE IF /\ CurrentOutput.output_type \in {"display_data", "execute_result"}
            /\ next_mime_type(mime_priority, CurrentOutput.data) # None
    THEN "render_mime_type"
    ELSE None

\* render_nb_cell_code_outputs: the element-renderer hook raises.  Nothing in
\* the renderer catches the error; it leaves the `with` blocks of the
\* "cell_output" and the cell container (render_nb_cell_code).  The context
\* manager current_node_context sets the pointer back after its `yield`,
\* outside any try/finally, so an error raised in the body passes the
\* assignment by and the pointer stays where it was.  A figure context open
\* around render_mime_type has appended its figure node; the pointer is left
\* on it or on the "cell_output" container.
OutputHookRaises ==
    /\ pc = "outputs"
    /\ output_index < Len(CurrentCell.outputs)
    /\ OutputHook # None
    /\ LET mime_type == next_mime_type(mime_priority, CurrentOutput.data)
           figure_options == FigureOptions(CurrentCell.metadata)
       IN  IF OutputHook = "render_mime_type"
           THEN /\ calls' = Append(calls,
                       Call("render_mime_type", CurrentIndex, output_index,
                            mime_type,
                            DataGetItem(CurrentOutput.data, mime_type),
                            figure_options))
                /\ IF figure_options = None
                   THEN UNCHANGED <<tree, current_node, node_stack>>
                   ELSE /\ tree' = Append(tree,
                               Node("figure", current_node, CurrentIndex,
                                    output_index, "", {},
                                    token_line(CurrentIndex)))
                        /\ \/ UNCHANGED <<current_node, node_stack>>
                           \/ /\ current_node' = Len(tree) + 1
                              /\ node_stack' = Append(node_stack, current_node)
           ELSE /\ calls' = Append(calls,
                       Call(OutputHook, CurrentIndex, output_index, "", "",
                            None))
                /\ UNCHANGED <<tree, current_node, node_stack>>
    /\ pc' = "raised"
    /\ UNCHANGED <<directives, roles, nb_config, mime_priority, nb_metadata, cells, document,
                   remove_input, remove_output, output_index, size, call_args,
                   call_result>>

NextFail ==
    \/ Next
    \/ CellHookRaises
    \/ OutputHookRaises

SpecFail == InitFail /\ [][NextFail]_vars

\* ------------------ the render, statement by statement where nodes are added

\* add_line_and_source_path_r(_nodes, token): the nodes with the line of the
\* cell's token on them
add_line_and_source_path_r(nodes_, cell_index) ==
    [i \in DOMAIN nodes_ |->
        [nodes_[i] EXCEPT !.line = token_line(cell_index)]]

\* The nodes as a hook returns them: the renderer has put no line on them.
ReturnedNodes(kind, parent, mime_type, n) ==
    Repeat(Node(kind, parent, CurrentIndex, output_index, mime_type, {},
                NoIndex), n)

\* render_nb_cell_code_outputs, display_data/execute_result with no type of
\* the priority list: the warning
WarnNoMimeType ==
    /\ pc = "outputs"
    /\ output_index < Len(CurrentCell.outputs)
    /\ CurrentOutput.output_type \in {"display_data", "execute_result"}
    /\ next_mime_type(mime_priority, CurrentOutput.data) = None
    /\ NoMimeType
    /\ UNCHANGED current_node
    /\ OutputFrame

\* render_nb_cell_code_outputs, display_data/execute_result: the hook is
\* called inside the figure context and `self.current_node.extend(_nodes)`
\* puts what it returned into the tree
ExtendMimeNodes ==
    /\ pc = "outputs"
    /\ output_index < Len(CurrentCell.outputs)
    /\ CurrentOutput.output_type \in {"display_data", "execute_result"}
    /\ LET mime_type == next_mime_type(mime_priority, CurrentOutput.data)
           figure_options == FigureOptions(CurrentCell.metadata)
           figure == Len(tree) + 1
       IN  /\ mime_type # None
           /\ \E n \in HookCounts(size) :
               /\ size' = size + HookSize(n)
               /\ calls' = Append(calls,
                      Call("render_mime_type", CurrentIndex, output_index,
                           mime_type, DataGetItem(CurrentOutput.data, mime_type),
                           figure_options))
               /\ IF figure_options = None
                  THEN tree' = tree \o
                           ReturnedNodes("mime", current_node, mime_type, n)
                  ELSE tree' = Append(tree,
                                  Node("figure", current_node, CurrentIndex,
                                       output_index, "", {},
                                       token_line(CurrentIndex)))
                               \o ReturnedNodes("mime", figure, mime_type, n)
    /\ pc' = "stamp"
    /\ UNCHANGED <<directives, roles, nb_config, mime_priority, nb_metadata, cells, current_node,
                   node_stack, document, remove_input, remove_output,
                   output_index, call_args, call_result>>

\* The nodes of the tree that the current output's hook returned.
IsCurrentMimeNode(i) ==
    /\ tree[i].kind = "mime"
    /\ tree[i].cell_index = CurrentIndex
    /\ tree[i].output_index = output_index

\* render_nb_cell_code_outputs: `self.add_line_and_source_path_r(_nodes,
\* token)` after the extend; the figure context ends and the loop goes on
StampMimeNodes ==
    /\ pc = "stamp"
    /\ LET stamped == add_line_and_source_path_r(tree, CurrentIndex)
       IN  tree' = [i \in DOMAIN tree |->
                       IF IsCurrentMimeNode(i) THEN stamped[i] ELSE tree[i]]
    /\ output_index' = output_index + 1
    /\ pc' = "outputs"
    /\ UNCHANGED <<directives, roles, nb_config, mime_priority, nb_metadata, cells, current_node,
                   node_stack, document, calls, remove_input, remove_output,
                   size, call_args, call_result>>

NextStamp ==
    \/ RenderNbMetadata
    \/ SkipEmptyCell
    \/ RenderNbCellMarkdown
    \/ RenderNbCellRaw
    \/ RenderNbCellCode
    \/ RenderCodeInput
    \/ BeginCodeOutputs
    \/ RenderStream
    \/ RenderError
    \/ WarnNoMimeType
    \/ ExtendMimeNodes
    \/ StampMimeNodes
    \/ RenderUnsupported
    \/ EndCodeOutputs

SpecStamp == Init /\ [][NextStamp]_vars

\* ------------------------------------------------------------ Parser.parse

InitParse ==
    /\ directives \in Registries(DirectiveNames)
    /\ roles \in Registries(RoleNames)
    /\ pc = "parse"
    /\ nb_config \in {c \in NbConfigs : NbConfigSize(c) = 0}
    /\ mime_priority = <<>>
    /\ nb_metadata = {}
    /\ cells = <<>>
    /\ tree = <<>>
    /\ current_node = 0
    /\ node_stack = <<>>
    /\ document = {}
    /\ calls = <<>>
    /\ remove_input = FALSE
    /\ remove_output = FALSE
    /\ output_index = 0
    /\ size = 0
    /\ call_args = None
    /\ call_result = None

\* What Parser.parse leaves alone: the render itself is not followed here.
ParseFrame ==
    UNCHANGED <<nb_config, mime_priority, nb_metadata, cells, tree,
                current_node, node_stack, document, calls, remove_input,
                remove_output, output_index, size, call_args, call_result>>

\* Parser.parse: the directives and roles are put into the registries
ParseRegister ==
    /\ pc = "parse"
    /\ directives' = Register(directives, new_directives)
    /\ roles' = Register(roles, new_roles)
    /\ pc' = "try"
    /\ ParseFrame

\* The error of _parse leaves parse with the names still registered.
ParseBodyRaisesUnreleased ==
    /\ pc = "try"
    /\ pc' = "parse_raised"
    /\ UNCHANGED <<directives, roles>>
    /\ ParseFrame

\* Parser.parse: `return self._parse(inputstring, document)` returns
ParseBodyReturns ==
    /\ pc = "try"
    /\ pc' = "finally_return"
    /\ UNCHANGED <<directives, roles>>
    /\ ParseFrame

\* Parser.parse: self._parse(inputstring, document) raises
ParseBodyRaises ==
    /\ pc = "try"
    /\ pc' = "finally_raise"
    /\ UNCHANGED <<directives, roles>>
    /\ ParseFrame

\* Parser.parse: the finally clause, then parse returns or the error goes on
ParseFinally ==
    /\ pc \in {"finally_return", "finally_raise"}
    /\ directives' = Unregister(directives, new_directives)
    /\ roles' = Unregister(roles, new_roles)
    /\ pc' = IF pc = "finally_return" THEN "parse_returned" ELSE "parse_raised"
    /\ ParseFrame

NextParse ==
    \/ ParseRegister
    \/ ParseBodyReturns
    \/ ParseBodyRaises
    \/ ParseFinally

SpecParse == InitParse /\ [][NextParse]_vars

\* ------------------------------------------------------------------ claims

\* Whether the cell metadata holds a cell-level value for the option.
HasCellLevel(cell_metadata, key) ==
    /\ cell_render_key \in DOMAIN cell_metadata
    /\ cell_metadata[cell_render_key].type = "dict"
    /\ key \in DOMAIN cell_metadata[cell_render_key].items

CellLevel(cell_metadata, key) == cell_metadata[cell_render_key].items[key]

\* C3: get_cell_render_config returns the cell-level value whenever the
\* cell's render-config sub-map holds the key, whatever the notebook/global
\* value; when the key is absent at cell level and notebook fallback is
\* allowed, it returns the notebook/global value for nb_key if given, else
\* for key, and fails if that is undefined.
C3_CellLevelWins ==
    pc = "returned" =>
        LET md == call_args.cell_metadata
            key == call_args.key
            fallback == IF call_args.nb_key # None THEN call_args.nb_key
                        ELSE key
        IN  /\ HasCellLevel(md, key) =>
                /\ call_result.kind = "return"
                /\ call_result.value = CellLevel(md, key)
            /\ (~HasCellLevel(md, key) /\ call_args.has_nb_key) =>
                IF fallback \in DOMAIN nb_config
                THEN /\ call_result.kind = "return"
                     /\ call_result.value = nb_config[fallback]
                ELSE call_result.kind = "KeyError"

\* A cell-level value has been returned that differs from the global one.
C3_Witness ==
    /\ pc = "returned"
    /\ call_args.key = "number_source_lines"
    /\ call_args.nb_key = None
    /\ call_args.has_nb_key
    /\ HasCellLevel(call_args.cell_metadata, "number_source_lines")
    /\ CellLevel(call_args.cell_metadata, "number_source_lines") = TRUE
    /\ "number_source_lines" \in DOMAIN nb_config
    /\ nb_config["number_source_lines"] = FALSE
    /\ call_result = Return(TRUE)

\* ---- the notebook as the claims see it

\* A code cell the loop hands to render_nb_cell_code.
IsCode(cell) == cell.cell_type = "code" /\ cell.source # ""

CellTags(cell) == IF "tags" \in DOMAIN cell.metadata THEN cell.metadata["tags"]
                  ELSE {}

\* The effective value of an option for a cell: cell level, else global.
EffectiveFlag(cell, key) ==
    IF HasCellLevel(cell.metadata, key) THEN CellLevel(cell.metadata, key)
    ELSE nb_config[key]

ResolvedRemoveInput(cell) ==
    \/ EffectiveFlag(cell, "remove_code_source")
    \/ CellTags(cell) \cap {"remove_input", "remove-input"} # {}

ResolvedRemoveOutput(cell) ==
    \/ EffectiveFlag(cell, "remove_code_outputs")
    \/ CellTags(cell) \cap {"remove_output", "remove-output"} # {}

\* The render stands at the head of the cell loop.
BetweenCells == pc = "cells"

\* Cells and outputs by their index in the notebook, from 0 as in the code.
CellAt(ci) == cells[ci + 1]

OutputAt(ci, oi) == cells[ci + 1].outputs[oi + 1]

CellIndices == 0..(Len(cells) - 1)

\* The render of cell ci is over.
CellDone(ci) == ci < Len(cells) - 1 \/ BetweenCells

\* The indices of the outputs of cell ci that the output loop has gone past:
\* none when the cell's outputs are not shown.
PastOutputs(ci) ==
    IF ~(IsCode(CellAt(ci)) /\ ~ResolvedRemoveOutput(CellAt(ci))) THEN {}
    ELSE IF CellDone(ci)
    THEN 0..(Len(CellAt(ci).outputs) - 1)
    ELSE IF pc = "outputs" THEN 0..(output_index - 1)
    ELSE {}

NodesOf(ci, oi) == {i \in 1..Len(tree) :
                      tree[i].cell_index = ci /\ tree[i].output_index = oi}

CallsOf(ci, oi) == {i \in 1..Len(calls) :
                      calls[i].cell_index = ci /\ calls[i].output_index = oi}

IsBundle(output) == output.output_type \in {"display_data", "execute_result"}

\* The positions of the priority list whose type is a key of the bundle.
Shared(output) == {j \in 1..Len(mime_priority) :
                      \E k \in 1..Len(output.data) :
                          output.data[k] = mime_priority[j]}

MimeCalls == {c \in 1..Len(calls) : calls[c].hook = "render_mime_type"}

CallOutput(c) == OutputAt(calls[c].cell_index, calls[c].output_index)

\* C1: for every display_data/execute_result output whose data map shares a
\* MIME type with the priority list, the type handed to render_mime_type is
\* the earliest entry of the priority list that is a key of the data map,
\* and two outputs with the same keys, in whatever order, get the same type.
C1_EarliestPriorityType ==
    /\ \A ci \in CellIndices : \A oi \in PastOutputs(ci) :
        (IsBundle(OutputAt(ci, oi)) /\ Shared(OutputAt(ci, oi)) # {}) =>
            \E c \in MimeCalls :
                /\ CallsOf(ci, oi) = {c}
                /\ \E j \in Shared(OutputAt(ci, oi)) :
                    /\ calls[c].mime_type = mime_priority[j]
                    /\ \A k \in Shared(OutputAt(ci, oi)) : j <= k
    /\ \A c, d \in MimeCalls :
        DataKeys(CallOutput(c).data) = DataKeys(CallOutput(d).data)
            => calls[c].mime_type = calls[d].mime_type

\* A bundle was rendered whose first key is on the priority list and is not
\* the type chosen.
C1_Witness ==
    \E c \in MimeCalls :
        /\ Len(CallOutput(c).data) >= 2
        /\ \E j \in Shared(CallOutput(c)) :
              mime_priority[j] = CallOutput(c).data[1]
        /\ calls[c].mime_type # CallOutput(c).data[1]

\* What rendering an output leaves behind: the hook called for it, or the
\* warning put in its place.  A stream that is neither stdout nor stderr
\* leaves nothing.
Rendered(ci, oi) ==
    LET o == OutputAt(ci, oi)
        called(hook) == \E c \in CallsOf(ci, oi) : calls[c].hook = hook
        warned(subtype) == \E i \in NodesOf(ci, oi) :
                              /\ tree[i].kind = "warning"
                              /\ tree[i].content = {subtype}
    IN  IF o.output_type = "stream"
        THEN (o.name = "stdout" => called("render_stdout"))
             /\ (o.name = "stderr" => called("render_stderr"))
        ELSE IF o.output_type = "error" THEN called("render_error")
        ELSE IF IsBundle(o)
        THEN IF Shared(o) # {} THEN called("render_mime_type")
             ELSE warned("mime_type")
        ELSE warned("output_type")

\* Every output of cell ci after output oi has been rendered.
LaterRendered(ci, oi) ==
    \A oj \in (oi + 1)..(Len(CellAt(ci).outputs) - 1) : Rendered(ci, oj)

\* C2: a display_data/execute_result output whose data map shares no MIME
\* type with the priority list gets exactly one warning node and no content
\* node, render_mime_type is not called for it, and every later output of
\* the cell is still rendered.
C2_NoMimeTypeWarning ==
    \A ci \in CellIndices : \A oi \in PastOutputs(ci) :
        (IsBundle(OutputAt(ci, oi)) /\ Shared(OutputAt(ci, oi)) = {}) =>
            /\ \E i \in 1..Len(tree) :
                /\ NodesOf(ci, oi) = {i}
                /\ tree[i].kind = "warning"
                /\ tree[i].content = {"mime_type"}
            /\ CallsOf(ci, oi) = {}
            /\ CellDone(ci) => LaterRendered(ci, oi)

\* A cell was rendered in which a bundle with no renderable type is followed
\* by an output for which a hook was called.
C2_Witness ==
    /\ BetweenCells
    /\ \E ci \in CellIndices : \E oi \in PastOutputs(ci) :
        /\ IsBundle(OutputAt(ci, oi))
        /\ OutputAt(ci, oi).data # <<>>
        /\ Shared(OutputAt(ci, oi)) = {}
        /\ \E oj \in PastOutputs(ci) : oj > oi /\ CallsOf(ci, oj) # {}

\* A code cell that render_nb_cell_code leaves out altogether.
FullyRemoved(cell) ==
    IsCode(cell) /\ ResolvedRemoveInput(cell) /\ ResolvedRemoveOutput(cell)

LastCell == cells[Len(cells)]

\* No node of the tree comes from a fully removed cell.
NoNodeOfRemovedCell ==
    \A i \in 1..Len(tree) :
        tree[i].cell_index # NoIndex => ~FullyRemoved(CellAt(tree[i].cell_index))

\* C4: a code cell whose resolved remove_input and remove_output are both
\* true adds no node to the tree (no container, no output node), and the
\* insertion pointer and the tree are the same after its render as before.
C4_RemovedCellAddsNothing ==
    [][ /\ (Len(cells') > Len(cells) /\ FullyRemoved(LastCell')) =>
            /\ tree' = tree
            /\ current_node' = current_node
            /\ node_stack' = node_stack
            /\ pc' = "cells"
        /\ NoNodeOfRemovedCell' ]_vars

\* A fully removed code cell was rendered after a cell that left nodes.
C4_Witness ==
    /\ pc = "cells"
    /\ Len(cells) >= 2
    /\ FullyRemoved(LastCell)
    /\ tree # <<>>

\* C5: remove_input is true if and only if the effective remove_code_source
\* flag is true or the tags contain "remove_input" or "remove-input"; the
\* same holds for remove_output with remove_code_outputs, "remove_output"
\* and "remove-output".
C5_RemoveFlags ==
    (cells # <<>> /\ IsCode(LastCell) /\ pc # "raised") =>
        /\ remove_input <=>
            \/ EffectiveFlag(LastCell, "remove_code_source")
            \/ "remove_input" \in CellTags(LastCell)
            \/ "remove-input" \in CellTags(LastCell)
        /\ remove_output <=>
            \/ EffectiveFlag(LastCell, "remove_code_outputs")
            \/ "remove_output" \in CellTags(LastCell)
            \/ "remove-output" \in CellTags(LastCell)

\* The hyphenated tag alone removes the input of a cell whose explicit
\* cell-level flag is false.
C5_Witness ==
    /\ cells # <<>>
    /\ IsCode(LastCell)
    /\ CellTags(LastCell) = {"remove-input"}
    /\ HasCellLevel(LastCell.metadata, "remove_code_source")
    /\ ~CellLevel(LastCell.metadata, "remove_code_source")
    /\ ~nb_config["remove_code_source"]
    /\ remove_input
    /\ ~remove_output

\* C6: a code cell that is not fully removed gets exactly one cell
\* container; it holds a "cell input" container iff remove_input is false
\* and a "cell output" container iff remove_output is false and the cell has
\* outputs, the input container first; the output container holds the nodes
\* of the cell's outputs and nothing else.
C6_CellStructure ==
    \A ci \in CellIndices :
        (IsCode(CellAt(ci)) /\ ~FullyRemoved(CellAt(ci)) /\ CellDone(ci)) =>
            \E c \in 1..Len(tree) :
                LET inputs == {i \in Children(c) : tree[i].kind = "cell_input"}
                    outputs == {i \in Children(c) : tree[i].kind = "cell_output"}
                    shown == /\ ~ResolvedRemoveOutput(CellAt(ci))
                             /\ CellAt(ci).outputs # <<>>
                IN  /\ {i \in 1..Len(tree) : /\ tree[i].kind = "cell"
                                            /\ tree[i].cell_index = ci} = {c}
                    /\ tree[c].parent = 0
                    /\ Children(c) = inputs \cup outputs
                    /\ Cardinality(inputs) =
                         (IF ResolvedRemoveInput(CellAt(ci)) THEN 0 ELSE 1)
                    /\ Cardinality(outputs) = (IF shown THEN 1 ELSE 0)
                    /\ \A i \in inputs, o \in outputs : i < o
                    /\ \A i \in inputs :
                         \E n \in 1..Len(tree) :
                             Children(i) = {n} /\ tree[n].kind = "source"
                    /\ \A i \in 1..Len(tree) :
                         (tree[i].cell_index = ci /\ tree[i].output_index # NoIndex)
                         <=> \/ tree[i].parent \in outputs
                             \/ /\ tree[i].parent # 0
                                /\ tree[tree[i].parent].kind = "figure"
                                /\ tree[tree[i].parent].parent \in outputs

\* The cell of the example: input removed by tag, one execute_result with
\* text/plain "42" under the priority text/html, image/png, text/plain.
C6_Witness ==
    /\ pc = "cells"
    /\ Len(cells) = 1
    /\ IsCode(LastCell)
    /\ CellTags(LastCell) = {"remove-input"}
    /\ LastCell.outputs = <<Output("execute_result", "", <<"text/plain">>)>>
    /\ mime_priority = <<"text/html", "image/png", "text/plain">>
    /\ calls = <<Call("render_mime_type", 0, 0, "text/plain", "42", None)>>
    /\ Len(tree) = 3
    /\ tree[1].kind = "cell" /\ tree[1].parent = 0
    /\ tree[2].kind = "cell_output" /\ tree[2].parent = 1
    /\ tree[3].kind = "mime" /\ tree[3].parent = 2
    /\ tree[3].mime_type = "text/plain"

SupportedTypes == {"stream", "error", "display_data", "execute_result"}

\* C7: an output whose output_type is none of stream, error, display_data,
\* execute_result gets exactly one warning node in its place, no error is
\* raised, and the remaining outputs of the cell are rendered.
C7_UnsupportedOutputWarning ==
    /\ pc # "raised"
    /\ \A ci \in CellIndices : \A oi \in PastOutputs(ci) :
        OutputAt(ci, oi).output_type \notin SupportedTypes =>
            /\ \E i \in 1..Len(tree) :
                /\ NodesOf(ci, oi) = {i}
                /\ tree[i].kind = "warning"
                /\ tree[i].content = {"output_type"}
            /\ CallsOf(ci, oi) = {}
            /\ CellDone(ci) => LaterRendered(ci, oi)

\* An unsupported output was followed by a rendered output of the same cell
\* and by a further cell.
C7_Witness ==
    /\ pc = "cells"
    /\ \E ci \in CellIndices : \E oi \in PastOutputs(ci) :
        /\ OutputAt(ci, oi).output_type \notin SupportedTypes
        /\ \E oj \in PastOutputs(ci) : oj > oi /\ CallsOf(ci, oj) # {}
        /\ \E i \in 1..Len(tree) : tree[i].cell_index > ci

\* The arena indices on the way from the document to node i.
RECURSIVE Path(_)
Path(i) == IF i = 0 THEN <<>> ELSE Append(Path(tree[i].parent), i)

\* Node i comes before node j in the document: i is an ancestor of j, or at
\* the first place their paths part, i's side is the earlier sibling.
\* Children of one node lie in the order of their indices.
Precedes(i, j) ==
    IF tree[i].parent = tree[j].parent THEN i < j
    ELSE LET p == Path(i)
             q == Path(j)
         IN  \E k \in 1..Len(q) :
                 /\ \A m \in 1..(k - 1) : m <= Len(p) /\ p[m] = q[m]
                 /\ IF k <= Len(p) THEN p[k] < q[k] ELSE k = Len(p) + 1

\* The output that node i comes from lies after the one node j comes from.
LaterOutput(i, j) ==
    \/ tree[i].cell_index > tree[j].cell_index
    \/ /\ tree[i].cell_index = tree[j].cell_index
       /\ tree[i].output_index > tree[j].output_index

\* The kinds of node an output may leave in the tree.
KindsFor(output) ==
    IF output.output_type = "stream"
    THEN IF output.name \in {"stdout", "stderr"} THEN {output.name} ELSE {}
    ELSE IF output.output_type = "error" THEN {"error"}
    ELSE IF IsBundle(output) /\ Shared(output) # {} THEN {"figure", "mime"}
    ELSE {"warning"}

\* C8: the nodes produced for outputs appear in the tree in notebook order:
\* the nodes of the output with the smaller (cell index, output index) pair
\* come first, warning nodes included, and the nodes found at an output's
\* position are those of that output.
C8_OutputOrder ==
    /\ \A i, j \in 1..Len(tree) :
        (/\ tree[i].output_index # NoIndex
         /\ tree[j].output_index # NoIndex
         /\ LaterOutput(i, j)) => ~Precedes(i, j)
    /\ \A ci \in CellIndices : \A oi \in PastOutputs(ci) :
        /\ Rendered(ci, oi)
        /\ \A i \in NodesOf(ci, oi) :
            /\ tree[i].kind \in KindsFor(OutputAt(ci, oi))
            /\ tree[i].kind = "mime" =>
                   tree[i].mime_type \in DataKeys(OutputAt(ci, oi).data)

\* The render has ended with the warning of a failing output of one cell
\* ahead of the node of an output of a later cell.
C8_Witness ==
    /\ pc = "cells"
    /\ \E i, j \in 1..Len(tree) :
        /\ tree[i].kind = "warning"
        /\ tree[j].kind \in {"stdout", "stderr", "error", "mime"}
        /\ tree[i].cell_index < tree[j].cell_index
        /\ Precedes(i, j)

\* The cell has left something behind: a node of the tree or a hook call.
CellRendered(ci) ==
    \/ \E i \in 1..Len(tree) : tree[i].cell_index = ci
    \/ \E c \in 1..Len(calls) : calls[c].cell_index = ci

\* What the cells leave behind lies in the order of the cells.
CellsInOrder ==
    /\ \A i, j \in 1..Len(tree) :
        (/\ tree[j].cell_index # NoIndex
         /\ tree[i].cell_index > tree[j].cell_index) => ~Precedes(i, j)
    /\ \A c, d \in 1..Len(calls) :
        (c < d /\ calls[c].cell_index # NoIndex) =>
            calls[c].cell_index <= calls[d].cell_index

FrontMatter == {i \in 1..Len(tree) : tree[i].kind = "front_matter"}

C11_NoFallbackFails ==
    /\ pc = "returned" =>
        ((~call_args.has_nb_key
          /\ ~HasCellLevel(call_args.cell_metadata, call_args.key)) =>
            /\ call_result.kind = "KeyError"
            /\ call_result.value = call_args.key)
    /\ pc # "raised"
    /\ \A c \in MimeCalls :
        ~HasCellLevel(CellAt(calls[c].cell_index).metadata, "figure") =>
            /\ calls[c].figure_options = None
            /\ \A i \in NodesOf(calls[c].cell_index, calls[c].output_index) :
                /\ tree[i].kind = "mime"
                /\ tree[tree[i].parent].kind = "cell_output"

\* A bundle of a cell whose render-config sub-map is not a map has been
\* rendered: the hook was called without figure options and its node added.
C11_Witness ==
    \E c \in MimeCalls :
        /\ cell_render_key \in DOMAIN CellAt(calls[c].cell_index).metadata
        /\ CellAt(calls[c].cell_index).metadata[cell_render_key] = OtherValue
        /\ calls[c].figure_options = None
        /\ \E i \in NodesOf(calls[c].cell_index, calls[c].output_index) :
               tree[i].kind = "mime"

\* The cell container of the cell being rendered.
CurrentCellContainer ==
    CHOOSE c \in 1..Len(tree) :
        tree[c].kind = "cell" /\ tree[c].cell_index = CurrentIndex

C13_StampedBeforeAppended ==
    \A i \in 1..Len(tree) :
        tree[i].kind \in {"stdout", "stderr", "error", "mime"} =>
            tree[i].line = token_line(tree[i].cell_index)

\* The entries of a registry under names parse does not register are the
\* same after the step as before it.
OthersUnchanged(before, after, new) ==
    /\ DOMAIN after \ DOMAIN new = DOMAIN before \ DOMAIN new
    /\ \A name \in DOMAIN before \ DOMAIN new : after[name] = before[name]

\* C14: Parser.parse registers the glue directives, "code-cell", "raw-cell"
\* and the glue roles before parsing, and when it has returned or raised
\* none of these names is in the directive or role registry; entries under
\* other names are never changed.
C14_RegistriesReleased ==
    [][ /\ pc' = "try" =>
            /\ \A name \in DOMAIN new_directives :
                   name \in DOMAIN directives'
                   /\ directives'[name] = new_directives[name]
            /\ \A name \in DOMAIN new_roles :
                   name \in DOMAIN roles' /\ roles'[name] = new_roles[name]
        /\ pc' \in {"parse_returned", "parse_raised"} =>
            /\ DOMAIN directives' \cap DOMAIN new_directives = {}
            /\ DOMAIN roles' \cap DOMAIN new_roles = {}
        /\ OthersUnchanged(directives, directives', new_directives)
        /\ OthersUnchanged(roles, roles', new_roles) ]_vars

\* parse has raised: the directives and the role registered under other
\* names are there, and nothing is registered under the names of parse.
C14_Witness ==
    /\ pc = "parse_raised"
    /\ DOMAIN directives = {"figure", "note"}
    /\ DOMAIN roles = {"math"}

====
